---- MODULE Spec2Model ----
(***************************************************************************)
(* Model of the Gemscap quantitative analytics platform:                   *)
(*   - the alert check of the dashboard refresh cycle   (src/app.py)       *)
(*   - the tick store                                   (src/storage.py)   *)
(*   - the live feed coordinator                        (src/ingestion.py) *)
(*   - the tick-to-bar aggregation                      (src/analytics.py) *)
(*   - the rolling z-score, OLS fit and ADF test        (src/analytics.py) *)
(*   - the ADF request of the dashboard                 (src/app.py)       *)
(* Each part has its own specification over the shared variables.          *)
(***************************************************************************)
EXTENDS Integers, Sequences, FiniteSets, TLC

VARIABLES
    now,            \* datetime.now(), in clock ticks of 1/TicksPerSecond s
    alerts,         \* st.session_state.alerts
    breach_log,     \* history: every |z| > threshold observation, with its exact time
    db,             \* the committed rows of table ticks, in id order
    store_lock,     \* TickStorage._lock: "free" or the thread holding it
    spc,            \* where each thread using the store is
    pending,        \* rows executed in the writer's open transaction, not committed
    call,           \* the arguments of each thread's current read
    result,         \* what each thread's current read has computed
    running,        \* BinanceTickIngestion.running
    tick_buffer,    \* BinanceTickIngestion.tick_buffer
    buffer_lock,    \* BinanceTickIngestion.buffer_lock: 0 (free) or the flush thread holding it
    stats,          \* BinanceTickIngestion.stats
    ws,             \* the connection registered for each symbol in ws_connections
    spos,           \* where the stream thread of each symbol is in _on_message
    hold,           \* the tick an _on_message call has parsed
    fpc,            \* where each flush thread is in _flush_buffer ("exited": not alive)
    stats_lock,     \* BinanceTickIngestion.stats_lock: "free" or the thread holding it
    df,             \* the tick frame handed to resample_ticks, rows in arrival order
    timeframe,      \* the timeframe of the last resample_ticks call (0: none yet)
    ohlc,           \* the frame the last resample_ticks call returned
    series,         \* the series handed to calculate_zscore
    window,         \* the window of the last calculate_zscore call (0: none yet)
    zscore_series,  \* the series the last calculate_zscore call returned
    STATSMODELS_AVAILABLE,  \* <<>> before analytics.py is imported, then <<flag>>
    price_a,        \* the close prices of asset A, by bar time
    price_b,        \* the close prices of asset B, by bar time
    ols_outcome,    \* how the last calculate_ols_hedge_ratio call ended
    adf_points,     \* the numbers in the series handed to adf_test
    adf_missing,    \* the NaN values in that series
    adf_outcome,    \* how the last adf_test call ended
    run_adf,        \* st.session_state.run_adf
    adf_results,    \* st.session_state.adf_results ([kind |-> "none"]: None)
    adf_page        \* what the last run of the dashboard script showed in tab 1

alertVars == <<now, alerts, breach_log>>
storeRest == <<store_lock, spc, pending, call, result>>
storeVars == <<db, store_lock, spc, pending, call, result>>
ingestVars == <<running, tick_buffer, buffer_lock, stats, ws, spos, hold, fpc, stats_lock>>
aggVars == <<df, timeframe, ohlc>>
zscoreVars == <<series, window, zscore_series>>
olsVars == <<STATSMODELS_AVAILABLE, price_a, price_b, ols_outcome>>
adfVars == <<adf_points, adf_missing, adf_outcome>>
requestVars == <<run_adf, adf_results, adf_page>>
statVars == <<zscoreVars, olsVars, adfVars, requestVars>>

vars == <<now, alerts, breach_log, db, store_lock, spc, pending, call, result,
          running, tick_buffer, buffer_lock, stats, ws, spos, hold, fpc, stats_lock,
          df, timeframe, ohlc, series, window, zscore_series,
          STATSMODELS_AVAILABLE, price_a, price_b, ols_outcome,
          adf_points, adf_missing, adf_outcome, run_adf, adf_results, adf_page>>

(***************************************************************************)
(* Shared values                                                           *)
(***************************************************************************)
\* default_symbols of the dashboard
Symbols == {"BTCUSDT", "ETHUSDT"}

\* Last(s): s[-1]
Last(s) == s[Len(s)]

\* abs()
Abs(x) == IF x < 0 THEN -x ELSE x

(***************************************************************************)
(* Alert check of the refresh cycle (tab1)                                 *)
(***************************************************************************)
\* resolution of the modelled clock: ticks per second
TicksPerSecond == 2
\* alerts (and logged breaches) kept by the model
MaxAlerts == 2
\* the modelled clock reads only instants in the first MaxExtraSeconds seconds
\* of a day, on the first two days
MaxExtraSeconds == 10

\* "Don't add alert within 5 seconds"
DebounceSeconds == 5
\* timedelta.seconds is the seconds component of a duration: 0 .. 86399
SecondsPerDay == 86400

\* z-scores and thresholds in tenths (slider 1.0 .. 4.0, step 0.1)
Thresholds == {10, 20}
ZValues == {-21, 20}
\* the z-score series as the check reads it: empty, or ending in its latest value
ZSeries == {<<>>} \cup {<<z>> : z \in ZValues}
SpreadValues == {3}

\* how far the clock moves between two reads of datetime.now()
ClockSteps ==
    {DebounceSeconds * TicksPerSecond - 1, DebounceSeconds * TicksPerSecond,
     (DebounceSeconds + 1) * TicksPerSecond,
     (SecondsPerDay + 2) * TicksPerSecond}
MaxNow == (SecondsPerDay + MaxExtraSeconds) * TicksPerSecond

\* current_time.strftime("%Y-%m-%d %H:%M:%S"): the text keeps whole seconds only
Strftime(t) == t \div TicksPerSecond
\* datetime.strptime(text, "%Y-%m-%d %H:%M:%S"): the instant at the start of that second
Strptime(text) == text * TicksPerSecond
\* (a - b).seconds for a >= b: the days of the difference are a separate field,
\* the microseconds another
TimedeltaSeconds(d) == (d \div TicksPerSecond) % SecondsPerDay

\* should_add_alert; last_alert is st.session_state.alerts[-1], or None when
\* the list is empty
ShouldAddAlert(al, current_time) ==
    IF al = <<>> THEN TRUE
    ELSE ~(TimedeltaSeconds(current_time - Strptime(Last(al).timestamp))
             < DebounceSeconds)

\* not zscore.empty and abs(zscore.iloc[-1]) > alert_threshold
Breach(zscore, threshold) == zscore # <<>> /\ Abs(Last(zscore)) > threshold

\* the dict appended to st.session_state.alerts
NewAlert(current_time, symbol_a, symbol_b, z, spread) ==
    [timestamp |-> Strftime(current_time), symbol_pair |-> <<symbol_a, symbol_b>>,
     zscore |-> z, spread |-> spread]

\* One refresh cycle reaching the alert check with the selected pair, the latest
\* z-score (or none), the latest spread and the alert threshold.
RefreshCycle(symbol_a, symbol_b, zscore, spread, threshold) ==
    /\ Breach(zscore, threshold) => Len(breach_log) < MaxAlerts
    /\ IF Breach(zscore, threshold)
       THEN LET add == ShouldAddAlert(alerts, now) IN
            /\ alerts' = IF add
                         THEN Append(alerts, NewAlert(now, symbol_a, symbol_b, Last(zscore), spread))
                         ELSE alerts
            /\ breach_log' = Append(breach_log,
                   [at |-> now, pair |-> <<symbol_a, symbol_b>>, added |-> add])
       ELSE UNCHANGED <<alerts, breach_log>>
    /\ UNCHANGED now

\* "Clear All Alerts" button (tab3)
ClearAlerts ==
    /\ alerts # <<>>
    /\ alerts' = <<>>
    /\ breach_log' = <<>>
    /\ UNCHANGED now

\* time passes between refresh cycles
AdvanceClock(d) ==
    /\ now + d <= MaxNow
    /\ (now + d) % (SecondsPerDay * TicksPerSecond) <= MaxExtraSeconds * TicksPerSecond
    /\ now' = now + d
    /\ UNCHANGED <<alerts, breach_log>>

InitAlert ==
    /\ now = 0
    /\ alerts = <<>>
    /\ breach_log = <<>>

NextAlert ==
    \/ \E a \in Symbols, b \in Symbols, z \in ZSeries,
          s \in SpreadValues, th \in Thresholds :
            RefreshCycle(a, b, z, s, th) /\ UNCHANGED <<storeVars, ingestVars, aggVars, statVars>>
    \/ ClearAlerts /\ UNCHANGED <<storeVars, ingestVars, aggVars, statVars>>
    \/ \E d \in ClockSteps : AdvanceClock(d) /\ UNCHANGED <<storeVars, ingestVars, aggVars, statVars>>

(***************************************************************************)
(* Claims about the alert check                                            *)
(***************************************************************************)
\* the logged breaches before the i-th that appended an alert
AddedBefore(i) == {j \in 1..(i - 1) : breach_log[j].added}
\* the latest of them
LastAddedBefore(i) == CHOOSE j \in AddedBefore(i) : \A k \in AddedBefore(i) : k <= j

\* C1: of two successive breaches for the same pair, the first of which appended
\* an alert, the second appends nothing when it comes less than 5 seconds after
\* the first (one alert in all), and appends an alert when it comes 6 seconds
\* after it (two alerts in all).
C1_DebounceWindow ==
    \A i \in 1..(Len(breach_log) - 1) :
        LET first == breach_log[i]
            second == breach_log[i + 1]
        IN  (first.pair = second.pair /\ first.added) =>
              /\ (second.at - first.at < DebounceSeconds * TicksPerSecond)
                    => ~second.added
              /\ (second.at - first.at = (DebounceSeconds + 1) * TicksPerSecond)
                    => second.added

\* C2: a breach for a pair is suppressed only when an alert for that same pair
\* was recorded within the last 5 seconds.
C2_DebouncePerPair ==
    \A i \in 1..Len(breach_log) :
        ~breach_log[i].added =>
            \E j \in AddedBefore(i) :
                /\ breach_log[j].pair = breach_log[i].pair
                /\ breach_log[i].at - breach_log[j].at < DebounceSeconds * TicksPerSecond

\* C3: a breach appends an alert exactly when there is no earlier alert or at
\* least 5 seconds have passed since the last one, however long the gap; and
\* nothing but such a breach appends to the alert list.
C3_EmitIffElapsed ==
    /\ \A i \in 1..Len(breach_log) :
          breach_log[i].added <=>
             \/ AddedBefore(i) = {}
             \/ breach_log[i].at - breach_log[LastAddedBefore(i)].at
                    >= DebounceSeconds * TicksPerSecond
    /\ Len(alerts) = Cardinality({i \in 1..Len(breach_log) : breach_log[i].added})


(***************************************************************************)
(* Timestamps as text                                                      *)
(***************************************************************************)
\* trade times T of the feed, in ms since the start of the modelled minute
TradeTimes == {1000, 1500, 10000}

\* two decimal digits, as character codes ('0' is 48)
TwoDigits(n) == <<48 + (n \div 10), 48 + (n % 10)>>

\* datetime.fromtimestamp(T / 1000.0).isoformat(): "...:SS" when the microseconds
\* are zero, "...:SS.ffffff" otherwise ('.' is 46).  The date, hour and minute
\* are the same text for every modelled time and are left out.
IsoFormat(ms) ==
    TwoDigits((ms \div 1000) % 60) \o
    (IF ms % 1000 = 0 THEN <<>>
     ELSE <<46, 48 + ((ms % 1000) \div 100), 48 + (((ms % 1000) \div 10) % 10),
            48 + (ms % 10), 48, 48, 48>>)

\* pd.to_datetime(text): the instant, in microseconds
ToDatetime(text) ==
    ((text[1] - 48) * 10 + (text[2] - 48)) * 1000000 +
    (IF Len(text) > 2
     THEN (text[4] - 48) * 100000 + (text[5] - 48) * 10000 + (text[6] - 48) * 1000
          + (text[7] - 48) * 100 + (text[8] - 48) * 10 + (text[9] - 48)
     ELSE 0)

\* SQLite's comparison of TEXT values (BINARY collation): byte by byte, a proper
\* prefix first
RECURSIVE TextLess(_, _)
TextLess(a, b) ==
    IF b = <<>> THEN FALSE
    ELSE IF a = <<>> THEN TRUE
    ELSE IF Head(a) # Head(b) THEN Head(a) < Head(b)
    ELSE TextLess(Tail(a), Tail(b))

TextLeq(a, b) == a = b \/ TextLess(a, b)

(***************************************************************************)
(* Tick store (TickStorage)                                                *)
(***************************************************************************)
\* rows the table may hold
MaxRows == 3
\* ticks in one batch
MaxBatch == 2

Prices == {1, 2}
Quantities == {1}

\* a tick as the coordinator buffers it: (timestamp, symbol, price, quantity)
Tick(ts, sym, p, q) == [timestamp |-> ts, symbol |-> sym, price |-> p, quantity |-> q]

\* the ticks handed to the store
StoreTicks == {Tick(IsoFormat(T), sym, 1, 1) : T \in TradeTimes, sym \in Symbols}
Batches == UNION {[1..n -> StoreTicks] : n \in 0..MaxBatch}

\* the flush thread of the coordinator and the dashboard's script threads
Writers == {"flush"}
Readers == {"ui1", "ui2"}
StoreThreads == Writers \cup Readers

\* arguments that are None or empty count as not given
NoSymbol == ""
NoTime == <<>>
NoLimit == 0
Limits == {NoLimit, 1, 2}
TimeArgs == {NoTime, IsoFormat(1500)}

NoCall == [op |-> "none", symbol |-> NoSymbol, limit |-> NoLimit,
           start_time |-> NoTime, end_time |-> NoTime]
NoResult == [rows |-> <<>>, count |-> 0, symbols |-> {}]

ReadCalls ==
    {[op |-> "get_ticks", symbol |-> sy, limit |-> li, start_time |-> st, end_time |-> en] :
        sy \in Symbols \cup {NoSymbol}, li \in Limits, st \in TimeArgs, en \in {NoTime}}
    \cup {[op |-> "get_ticks", symbol |-> sy, limit |-> NoLimit, start_time |-> NoTime,
           end_time |-> en] : sy \in Symbols, en \in TimeArgs}
    \cup {[op |-> "get_tick_count", symbol |-> sy, limit |-> NoLimit,
           start_time |-> NoTime, end_time |-> NoTime] : sy \in Symbols \cup {NoSymbol}}
    \cup {[op |-> "get_symbols", symbol |-> NoSymbol, limit |-> NoLimit,
           start_time |-> NoTime, end_time |-> NoTime]}

\* the ids of the rows the WHERE clause of get_ticks selects
Matching(c) ==
    {i \in 1..Len(db) :
        /\ c.symbol # NoSymbol => db[i].symbol = c.symbol
        /\ c.start_time # NoTime => TextLeq(c.start_time, db[i].timestamp)
        /\ c.end_time # NoTime => TextLeq(db[i].timestamp, c.end_time)}

\* the sequences that list every element of S once
Orderings(S) ==
    {f \in [1..Cardinality(S) -> S] : \A i, j \in 1..Cardinality(S) : i # j => f[i] # f[j]}

\* variant: ORDER BY timestamp ASC (the head of the table instead of its tail)
OrderedByTimestampAsc(rows) ==
    \A k \in 1..(Len(rows) - 1) : TextLeq(db[rows[k]].timestamp, db[rows[k + 1]].timestamp)

\* ORDER BY timestamp DESC, on the stored text (rows of equal text in any order)
OrderedByTimestampDesc(rows) ==
    \A k \in 1..(Len(rows) - 1) : TextLeq(db[rows[k + 1]].timestamp, db[rows[k]].timestamp)

\* LIMIT n, present only when limit is truthy
ApplyLimit(rows, limit) ==
    IF limit # NoLimit /\ limit < Len(rows) THEN SubSeq(rows, 1, limit) ELSE rows

\* the results pd.read_sql_query may return for the query of get_ticks
SqlSelect(c) ==
    {ApplyLimit(rows, c.limit) : rows \in {r \in Orderings(Matching(c)) : OrderedByTimestampDesc(r)}}

\* df.sort_values('timestamp') after pd.to_datetime (rows of equal time in any order)
SortValues(rows) ==
    {f \in Orderings({rows[k] : k \in 1..Len(rows)}) :
        \A k \in 1..(Len(f) - 1) :
            ToDatetime(db[f[k]].timestamp) <= ToDatetime(db[f[k + 1]].timestamp)}

\* SELECT COUNT(*) FROM ticks [WHERE symbol = ?]
CountRows(symbol) ==
    Cardinality({i \in 1..Len(db) : symbol # NoSymbol => db[i].symbol = symbol})

\* SELECT DISTINCT symbol FROM ticks
DistinctSymbols == {db[i].symbol : i \in 1..Len(db)}

\* variant: the section is entered without waiting for the lock
LockIgnored(t) == TRUE

\* "with self._lock:" is entered only when no thread holds the lock
LockAvailable(t) == store_lock = "free"

\* insert_ticks_batch(ticks): an empty batch returns at once; otherwise the lock
\* is taken, a connection opened and the rows executed in its transaction
InsertBegin(t, ticks) ==
    /\ spc[t] = "idle"
    /\ IF ticks = <<>>
       THEN UNCHANGED <<store_lock, spc, pending>>
       ELSE /\ LockAvailable(t)
            /\ Len(db) + Len(ticks) <= MaxRows
            /\ store_lock' = t
            /\ spc' = [spc EXCEPT ![t] = "executed"]
            /\ pending' = ticks
    /\ UNCHANGED <<db, call, result>>

\* conn.commit(): the rows of the batch become visible together
InsertCommit(t) ==
    /\ spc[t] = "executed"
    /\ db' = db \o pending
    /\ pending' = <<>>
    /\ spc' = [spc EXCEPT ![t] = "close"]
    /\ UNCHANGED <<store_lock, call, result>>

\* variant: the rows executed before the failure stay in the table
InsertRaiseKeepsRows(t) ==
    /\ spc[t] = "executed"
    /\ db' = db \o SubSeq(pending, 1, 1)
    /\ pending' = <<>>
    /\ store_lock' = "free"
    /\ spc' = [spc EXCEPT ![t] = "raised"]
    /\ UNCHANGED <<call, result>>

\* executemany or commit raises: nothing of the batch is committed, the with
\* statement releases the lock and the exception goes to the caller
InsertRaise(t) ==
    /\ spc[t] = "executed"
    /\ pending' = <<>>
    /\ store_lock' = "free"
    /\ spc' = [spc EXCEPT ![t] = "raised"]
    /\ UNCHANGED <<db, call, result>>

\* get_ticks / get_tick_count / get_symbols: take the lock and connect
ReadBegin(t, c) ==
    /\ spc[t] = "idle"
    /\ LockAvailable(t)
    /\ store_lock' = t
    /\ spc' = [spc EXCEPT ![t] = "query"]
    /\ call' = [call EXCEPT ![t] = c]
    /\ UNCHANGED <<db, pending, result>>

\* the query and what follows it up to conn.close()
ReadQuery(t) ==
    /\ spc[t] = "query"
    /\ \/ /\ call[t].op = "get_ticks"
          /\ \E rows \in SqlSelect(call[t]) : \E frame \in SortValues(rows) :
                result' = [result EXCEPT ![t] = [NoResult EXCEPT !.rows = frame]]
       \/ /\ call[t].op = "get_tick_count"
          /\ result' = [result EXCEPT ![t] = [NoResult EXCEPT !.count = CountRows(call[t].symbol)]]
       \/ /\ call[t].op = "get_symbols"
          /\ result' = [result EXCEPT ![t] = [NoResult EXCEPT !.symbols = DistinctSymbols]]
    /\ spc' = [spc EXCEPT ![t] = "close"]
    /\ UNCHANGED <<db, store_lock, pending, call>>

\* the read raises inside the with block: the lock is released
ReadRaise(t) ==
    /\ spc[t] = "query"
    /\ store_lock' = "free"
    /\ spc' = [spc EXCEPT ![t] = "raised"]
    /\ call' = [call EXCEPT ![t] = NoCall]
    /\ UNCHANGED <<db, pending, result>>

\* leaving the with block: the lock is released and the call returns
StoreReturn(t) ==
    /\ spc[t] = "close"
    /\ store_lock' = "free"
    /\ spc' = [spc EXCEPT ![t] = "idle"]
    /\ call' = [call EXCEPT ![t] = NoCall]
    /\ result' = [result EXCEPT ![t] = NoResult]
    /\ UNCHANGED <<db, pending>>

\* the caller has handled (or swallowed) the exception
StoreCaught(t) ==
    /\ spc[t] = "raised"
    /\ spc' = [spc EXCEPT ![t] = "idle"]
    /\ UNCHANGED <<db, store_lock, pending, call, result>>

InitStore ==
    /\ db = <<>>
    /\ store_lock = "free"
    /\ spc = [t \in StoreThreads |-> "idle"]
    /\ pending = <<>>
    /\ call = [t \in StoreThreads |-> NoCall]
    /\ result = [t \in StoreThreads |-> NoResult]

NextStore ==
    \/ \E t \in Writers, b \in Batches : InsertBegin(t, b) /\ UNCHANGED <<alertVars, ingestVars, aggVars, statVars>>
    \/ \E t \in Writers : InsertCommit(t) /\ UNCHANGED <<alertVars, ingestVars, aggVars, statVars>>
    \/ \E t \in Writers : InsertRaise(t) /\ UNCHANGED <<alertVars, ingestVars, aggVars, statVars>>
    \/ \E t \in Readers, c \in ReadCalls : ReadBegin(t, c) /\ UNCHANGED <<alertVars, ingestVars, aggVars, statVars>>
    \/ \E t \in Readers : ReadQuery(t) /\ UNCHANGED <<alertVars, ingestVars, aggVars, statVars>>
    \/ \E t \in Readers : ReadRaise(t) /\ UNCHANGED <<alertVars, ingestVars, aggVars, statVars>>
    \/ \E t \in StoreThreads : StoreReturn(t) /\ UNCHANGED <<alertVars, ingestVars, aggVars, statVars>>
    \/ \E t \in StoreThreads : StoreCaught(t) /\ UNCHANGED <<alertVars, ingestVars, aggVars, statVars>>

(***************************************************************************)
(* Claims about the tick store                                             *)
(***************************************************************************)
\* the rows of one symbol
RowsOf(symbol) == {i \in 1..Len(db) : db[i].symbol = symbol}
\* the ids a frame holds
FrameIds(frame) == {frame[k] : k \in 1..Len(frame)}
\* a get_ticks(symbol, limit=n) call, n >= 1, without time range, about to return
LatestCall(t) ==
    /\ spc[t] = "close"
    /\ call[t].op = "get_ticks"
    /\ call[t].symbol # NoSymbol
    /\ call[t].limit # NoLimit
    /\ call[t].start_time = NoTime /\ call[t].end_time = NoTime

InDatabaseSection(t) == spc[t] \in {"executed", "query", "close"}

\* C5: at most one thread is inside a database section, so no read runs while
\* a batch is executed but not committed; and the lock is held exactly by the
\* thread inside a section (a call that raised has released it).
C5_MutualExclusion ==
    /\ \A t, u \in StoreThreads : (InDatabaseSection(t) /\ InDatabaseSection(u)) => t = u
    /\ \A t \in Readers : InDatabaseSection(t) => pending = <<>>
    /\ \A t \in StoreThreads : InDatabaseSection(t) <=> store_lock = t
    /\ (\A t \in StoreThreads : ~InDatabaseSection(t)) <=> store_lock = "free"

\* an insert raised with its batch uncommitted, and a read now holds the lock
C5_Witness ==
    \E w \in Writers, r \in Readers :
        /\ spc[w] = "raised"
        /\ spc[r] = "close"
        /\ store_lock = r
        /\ db # <<>>

\* the rows of one symbol among the given rows
CountOf(rows, symbol) == Cardinality({i \in 1..Len(rows) : rows[i].symbol = symbol})

\* a step of the store: stored rows are never changed or removed, rows are
\* added only by the commit of a batch, which adds the whole batch, and a
\* failed insert adds nothing
AppendOnlyStep ==
    /\ Len(db') >= Len(db)
    /\ SubSeq(db', 1, Len(db)) = db
    /\ \A sym \in Symbols : CountOf(db', sym) >= CountOf(db, sym)
    /\ IF \E t \in Writers : InsertCommit(t)
       THEN \A sym \in Symbols : CountOf(db', sym) = CountOf(db, sym) + CountOf(pending, sym)
       ELSE db' = db

\* C16: the store is append-only; get_tick_count(symbol) returns the number of
\* ticks appended for the symbol (of all ticks without a symbol), which never
\* decreases; and get_symbols returns exactly the symbols whose count is
\* greater than zero.
C16_AppendOnly ==
    /\ [][AppendOnlyStep]_vars
    /\ [](\A t \in Readers :
            spc[t] = "close" =>
               /\ call[t].op = "get_tick_count" =>
                     result[t].count = IF call[t].symbol = NoSymbol THEN Len(db)
                                       ELSE CountOf(db, call[t].symbol)
               /\ call[t].op = "get_symbols" =>
                     result[t].symbols = {sym \in Symbols : CountOf(db, sym) > 0})

\* get_symbols is about to return one symbol of the two, from a table of more
\* than one row, after an insert has failed
C16_Witness ==
    \E t \in Readers, w \in Writers :
        /\ spc[t] = "close"
        /\ call[t].op = "get_symbols"
        /\ Cardinality(result[t].symbols) = 1
        /\ Len(db) > 1
        /\ spc[w] = "raised"

\* a get_latest_ticks(symbol, n) call, n >= 0, about to return
LatestTicksCall(t) ==
    /\ spc[t] = "close"
    /\ call[t].op = "get_ticks"
    /\ call[t].symbol # NoSymbol
    /\ call[t].start_time = NoTime /\ call[t].end_time = NoTime

\* a get_ticks call with a symbol argument, about to return
SymbolCall(t) ==
    /\ spc[t] = "close"
    /\ call[t].op = "get_ticks"
    /\ call[t].symbol # NoSymbol

\* get_ticks with a symbol argument returns rows of that symbol only
OnlyOwnSymbol ==
    \A t \in Readers :
        SymbolCall(t) => FrameIds(result[t].rows) \subseteq RowsOf(call[t].symbol)

\* C21: for every n >= 0, get_latest_ticks(symbol, n) returns at most n ticks,
\* and get_ticks with a symbol argument never returns a tick of another symbol.
C21_AtMostN ==
    /\ \A t \in Readers : LatestTicksCall(t) => Len(result[t].rows) <= call[t].limit
    /\ OnlyOwnSymbol

(***************************************************************************)
(* Live feed coordinator (BinanceTickIngestion)                            *)
(***************************************************************************)
\* ticks one run of the coordinator accepts
MaxTicks == 2
\* flush threads alive at the same time
MaxFlushThreads == 2

\* s.lower() and s.upper() on the symbols
Lower(s) == CASE s \in {"BTCUSDT", "btcusdt"} -> "btcusdt"
              [] s \in {"ETHUSDT", "ethusdt"} -> "ethusdt"
Upper(s) == CASE s \in {"BTCUSDT", "btcusdt"} -> "BTCUSDT"
              [] s \in {"ETHUSDT", "ethusdt"} -> "ETHUSDT"

\* self.symbols
CoordSymbols == {Lower(s) : s \in Symbols}
FlushThreads == 1..MaxFlushThreads

\* a field of a feed message: present and parseable, absent, or unparseable
Field(kind, val) == [kind |-> kind, val |-> val]
\* the T and p values of the modelled trade events
FeedTimes == {1500}
FeedPrices == {2}

\* a trade event with every field present and parseable
GoodTrades ==
    {[json |-> "object", e |-> "trade", T |-> Field("ok", t), p |-> Field("ok", pr),
      q |-> Field("ok", q)] : t \in FeedTimes, pr \in FeedPrices, q \in Quantities}

\* the texts a stream may deliver: trade events; other events; trade events
\* with one field absent or unparseable; JSON that is no object; text that is
\* not JSON
Messages ==
    GoodTrades
    \cup {[m EXCEPT !.e = e] : m \in GoodTrades, e \in {"aggTrade", "none"}}
    \cup {[m EXCEPT !.T = Field(k, 0)] : m \in GoodTrades, k \in {"missing", "bad"}}
    \cup {[m EXCEPT !.p = Field(k, 0)] : m \in GoodTrades, k \in {"missing", "bad"}}
    \cup {[m EXCEPT !.q = Field(k, 0)] : m \in GoodTrades, k \in {"missing", "bad"}}
    \cup {[json |-> j, e |-> "none", T |-> Field("missing", 0), p |-> Field("missing", 0),
           q |-> Field("missing", 0)] : j \in {"invalid", "array"}}

NoTick == Tick(<<>>, "", 0, 0)

\* variant: the quantity is read only after the tick went to the buffer, an
\* unparseable one counting as 0
OnMessageOutcomeLateQuantity(message, symbol) ==
    IF message.json # "object" THEN [kind |-> "except", tick |-> NoTick]
    ELSE IF message.e # "trade" THEN [kind |-> "ignored", tick |-> NoTick]
    ELSE IF message.T.kind # "ok" \/ message.p.kind # "ok"
         THEN [kind |-> "except", tick |-> NoTick]
    ELSE [kind |-> "tick",
          tick |-> Tick(IsoFormat(message.T.val), Upper(symbol), message.p.val,
                        IF message.q.kind = "ok" THEN message.q.val ELSE 0)]

\* _on_message up to the first lock: json.loads, data.get('e'), then timestamp,
\* price and quantity in this order; any exception ends the call in "except: pass"
OnMessageOutcome(message, symbol) ==
    IF message.json # "object" THEN [kind |-> "except", tick |-> NoTick]
    ELSE IF message.e # "trade" THEN [kind |-> "ignored", tick |-> NoTick]
    ELSE IF message.T.kind # "ok" THEN [kind |-> "except", tick |-> NoTick]
    ELSE IF message.p.kind # "ok" THEN [kind |-> "except", tick |-> NoTick]
    ELSE IF message.q.kind # "ok" THEN [kind |-> "except", tick |-> NoTick]
    ELSE [kind |-> "tick",
          tick |-> Tick(IsoFormat(message.T.val), Upper(symbol), message.p.val,
                        message.q.val)]

\* the buffered ticks that are not in the table: all of them, except between
\* the return of insert_ticks_batch and tick_buffer.clear()
Unwritten ==
    IF \E f \in FlushThreads : fpc[f] = "unlock" THEN 0 ELSE Len(tick_buffer)

\* ticks accepted so far and not lost
Accepted ==
    Len(db) + Unwritten + Cardinality({s \in CoordSymbols : spos[s] = "buffer"})

\* the stream of a symbol delivers a message to _on_message
OnMessage(symbol, message) ==
    /\ ws[symbol] = "open"
    /\ spos[symbol] = "recv"
    /\ LET out == OnMessageOutcome(message, symbol) IN
         IF out.kind = "tick"
         THEN /\ Accepted < MaxTicks
              /\ hold' = [hold EXCEPT ![symbol] = out.tick]
              /\ spos' = [spos EXCEPT ![symbol] = "buffer"]
         ELSE /\ spos' = [spos EXCEPT ![symbol] = out.kind]
              /\ UNCHANGED hold
    /\ UNCHANGED <<db, running, tick_buffer, buffer_lock, stats, ws, fpc, stats_lock>>

\* variant: the tick is appended without taking the buffer lock
OnMessageAppendNoLock(symbol) ==
    /\ spos[symbol] = "buffer"
    /\ tick_buffer' = Append(tick_buffer, hold[symbol])
    /\ spos' = [spos EXCEPT ![symbol] = "stats"]
    /\ UNCHANGED <<db, running, buffer_lock, stats, ws, hold, fpc, stats_lock>>

\* with self.buffer_lock: self.tick_buffer.append(...)
OnMessageAppend(symbol) ==
    /\ spos[symbol] = "buffer"
    /\ buffer_lock = 0
    /\ tick_buffer' = Append(tick_buffer, hold[symbol])
    /\ spos' = [spos EXCEPT ![symbol] = "stats"]
    /\ UNCHANGED <<db, running, buffer_lock, stats, ws, hold, fpc, stats_lock>>

\* with self.stats_lock:
OnMessageStatsLock(symbol) ==
    /\ spos[symbol] = "stats"
    /\ stats_lock = "free"
    /\ stats_lock' = symbol
    /\ spos' = [spos EXCEPT ![symbol] = "counting"]
    /\ UNCHANGED <<db, running, tick_buffer, buffer_lock, stats, ws, hold, fpc>>

\* count += 1; last_price = price; the lock is released and the call returns
OnMessageStats(symbol) ==
    /\ spos[symbol] = "counting"
    /\ stats' = [stats EXCEPT ![symbol] =
                    [count |-> @.count + 1, last_price |-> hold[symbol].price]]
    /\ hold' = [hold EXCEPT ![symbol] = NoTick]
    /\ spos' = [spos EXCEPT ![symbol] = "recv"]
    /\ stats_lock' = "free"
    /\ UNCHANGED <<db, running, tick_buffer, buffer_lock, ws, fpc>>

\* variant: get_stats waits for the buffer lock as well
GetStatsLockAfterBuffer ==
    /\ buffer_lock = 0
    /\ stats_lock = "free"
    /\ stats_lock' = "ui"
    /\ UNCHANGED <<db, running, tick_buffer, buffer_lock, stats, ws, spos, hold, fpc>>

\* get_stats(), called by the dashboard: with self.stats_lock:
GetStatsLock ==
    /\ stats_lock = "free"
    /\ stats_lock' = "ui"
    /\ UNCHANGED <<db, running, tick_buffer, buffer_lock, stats, ws, spos, hold, fpc>>

\* return self.stats.copy(): the copy goes to the display, the lock is released
GetStatsReturn ==
    /\ stats_lock = "ui"
    /\ stats_lock' = "free"
    /\ UNCHANGED <<db, running, tick_buffer, buffer_lock, stats, ws, spos, hold, fpc>>

\* the call returns after "except: pass", or after an event that is no trade
OnMessageReturn(symbol) ==
    /\ spos[symbol] \in {"except", "ignored"}
    /\ spos' = [spos EXCEPT ![symbol] = "recv"]
    /\ UNCHANGED <<db, running, tick_buffer, buffer_lock, stats, ws, hold, fpc, stats_lock>>

\* the connection of a symbol fails or is closed by the peer: run_forever ends
StreamError(symbol) ==
    /\ ws[symbol] = "open"
    /\ ws' = [ws EXCEPT ![symbol] = "closed"]
    /\ UNCHANGED <<db, running, tick_buffer, buffer_lock, stats, spos, hold, fpc, stats_lock>>

\* start(): nothing when running; else one stream per symbol and a flush thread.
\* (The model starts a coordinator only when a flush thread slot is free and no
\* _on_message call of an earlier stream is still in progress.)
Start ==
    /\ IF running
       THEN UNCHANGED <<running, ws, fpc>>
       ELSE /\ \A s \in CoordSymbols : spos[s] = "recv"
            /\ \E f \in FlushThreads :
                 /\ fpc[f] = "exited"
                 /\ \A g \in FlushThreads : fpc[g] = "exited" => f <= g
                 /\ fpc' = [fpc EXCEPT ![f] = "loop"]
            /\ running' = TRUE
            /\ ws' = [s \in CoordSymbols |-> "open"]
    /\ UNCHANGED <<db, tick_buffer, buffer_lock, stats, spos, hold, stats_lock>>

\* the place of a symbol in self.symbols, which is the order of ws_connections
SymbolOrder(symbol) == IF symbol = "btcusdt" THEN 1 ELSE 2

\* variant: the first close() that raises ends the loop over the connections
StopAbortsOnFailure(failing) ==
    /\ running' = FALSE
    /\ ws' = [s \in CoordSymbols |->
                IF ws[s] = "none" THEN "none"
                ELSE IF \E u \in failing : SymbolOrder(u) < SymbolOrder(s) THEN ws[s]
                ELSE "closed"]
    /\ UNCHANGED <<db, tick_buffer, buffer_lock, stats, spos, hold, fpc, stats_lock>>

\* stop(): running = False, then close() on every registered connection;
\* failing: the connections whose close() raises ("except: pass"). close()
\* clears keep_running before it touches the socket, so the stream ends even
\* when close() raises.
Stop(failing) ==
    /\ running' = FALSE
    /\ ws' = [s \in CoordSymbols |-> IF ws[s] = "none" THEN "none" ELSE "closed"]
    /\ UNCHANGED <<db, tick_buffer, buffer_lock, stats, spos, hold, fpc, stats_lock>>

\* while self.running: time.sleep(1)
FlushTest(f) ==
    /\ fpc[f] = "loop"
    /\ fpc' = [fpc EXCEPT ![f] = IF running THEN "sleep" ELSE "exited"]
    /\ UNCHANGED <<db, running, tick_buffer, buffer_lock, stats, ws, spos, hold, stats_lock>>

\* with self.buffer_lock:
FlushLock(f) ==
    /\ fpc[f] = "sleep"
    /\ buffer_lock = 0
    /\ buffer_lock' = f
    /\ fpc' = [fpc EXCEPT ![f] = "locked"]
    /\ UNCHANGED <<db, running, tick_buffer, stats, ws, spos, hold, stats_lock>>

\* what a successful insert_ticks_batch(batch) leaves in the table
Inserted(table, batch) == table \o batch

\* insert_ticks_batch(self.tick_buffer.copy()) returns
FlushWrite(f) ==
    /\ fpc[f] = "locked"
    /\ tick_buffer # <<>>
    /\ db' = Inserted(db, tick_buffer)
    /\ fpc' = [fpc EXCEPT ![f] = "unlock"]
    /\ UNCHANGED <<running, tick_buffer, buffer_lock, stats, ws, spos, hold, stats_lock>>

\* self.tick_buffer.clear(); the with block is left and the loop tests
\* self.running again
FlushClear(f) ==
    /\ fpc[f] = "unlock"
    /\ tick_buffer' = <<>>
    /\ buffer_lock' = 0
    /\ fpc' = [fpc EXCEPT ![f] = "loop"]
    /\ UNCHANGED <<db, running, stats, ws, spos, hold, stats_lock>>

\* variant: the buffer is cleared whether or not the insert succeeded
FlushWriteFailedClears(f) ==
    /\ fpc[f] = "locked"
    /\ tick_buffer # <<>>
    /\ tick_buffer' = <<>>
    /\ fpc' = [fpc EXCEPT ![f] = "except"]
    /\ UNCHANGED <<db, running, buffer_lock, stats, ws, spos, hold, stats_lock>>

\* variant: the exception of the insert leaves the thread's loop
FlushWriteFailedExits(f) ==
    /\ fpc[f] = "locked"
    /\ tick_buffer # <<>>
    /\ buffer_lock' = 0
    /\ fpc' = [fpc EXCEPT ![f] = "exited"]
    /\ UNCHANGED <<db, running, tick_buffer, stats, ws, spos, hold, stats_lock>>

\* insert_ticks_batch raises: "except: pass", with nothing committed or cleared
FlushWriteFailed(f) ==
    /\ fpc[f] = "locked"
    /\ tick_buffer # <<>>
    /\ fpc' = [fpc EXCEPT ![f] = "except"]
    /\ UNCHANGED <<db, running, tick_buffer, buffer_lock, stats, ws, spos, hold, stats_lock>>

\* the with block is left (after the except, or with an empty buffer) and the
\* loop tests self.running again
FlushUnlock(f) ==
    /\ \/ fpc[f] = "except"
       \/ fpc[f] = "locked" /\ tick_buffer = <<>>
    /\ buffer_lock' = 0
    /\ fpc' = [fpc EXCEPT ![f] = "loop"]
    /\ UNCHANGED <<db, running, tick_buffer, stats, ws, spos, hold, stats_lock>>

InitIngest ==
    /\ running = FALSE
    /\ tick_buffer = <<>>
    /\ buffer_lock = 0
    /\ stats = [s \in CoordSymbols |-> [count |-> 0, last_price |-> 0]]
    /\ ws = [s \in CoordSymbols |-> "none"]
    /\ spos = [s \in CoordSymbols |-> "recv"]
    /\ hold = [s \in CoordSymbols |-> NoTick]
    /\ fpc = [f \in FlushThreads |-> "exited"]
    /\ stats_lock = "free"

StreamStep(s) ==
    \/ \E m \in Messages : OnMessage(s, m)
    \/ OnMessageAppend(s)
    \/ OnMessageStatsLock(s)
    \/ OnMessageStats(s)
    \/ OnMessageReturn(s)

FlushStep(f) ==
    \/ FlushTest(f)
    \/ FlushLock(f)
    \/ FlushWrite(f)
    \/ FlushClear(f)
    \/ FlushWriteFailed(f)
    \/ FlushUnlock(f)

NextIngest ==
    \/ \E s \in CoordSymbols, m \in Messages :
          OnMessage(s, m) /\ UNCHANGED <<alertVars, storeRest, aggVars, statVars>>
    \/ \E s \in CoordSymbols : OnMessageAppend(s) /\ UNCHANGED <<alertVars, storeRest, aggVars, statVars>>
    \/ \E s \in CoordSymbols : OnMessageStatsLock(s) /\ UNCHANGED <<alertVars, storeRest, aggVars, statVars>>
    \/ \E s \in CoordSymbols : OnMessageStats(s) /\ UNCHANGED <<alertVars, storeRest, aggVars, statVars>>
    \/ \E s \in CoordSymbols : OnMessageReturn(s) /\ UNCHANGED <<alertVars, storeRest, aggVars, statVars>>
    \/ \E s \in CoordSymbols : StreamError(s) /\ UNCHANGED <<alertVars, storeRest, aggVars, statVars>>
    \/ Start /\ UNCHANGED <<alertVars, storeRest, aggVars, statVars>>
    \/ \E failing \in SUBSET CoordSymbols :
          Stop(failing) /\ UNCHANGED <<alertVars, storeRest, aggVars, statVars>>
    \/ \E f \in FlushThreads : FlushTest(f) /\ UNCHANGED <<alertVars, storeRest, aggVars, statVars>>
    \/ \E f \in FlushThreads : FlushLock(f) /\ UNCHANGED <<alertVars, storeRest, aggVars, statVars>>
    \/ \E f \in FlushThreads : FlushWrite(f) /\ UNCHANGED <<alertVars, storeRest, aggVars, statVars>>
    \/ \E f \in FlushThreads : FlushClear(f) /\ UNCHANGED <<alertVars, storeRest, aggVars, statVars>>
    \/ \E f \in FlushThreads : FlushWriteFailed(f) /\ UNCHANGED <<alertVars, storeRest, aggVars, statVars>>
    \/ \E f \in FlushThreads : FlushUnlock(f) /\ UNCHANGED <<alertVars, storeRest, aggVars, statVars>>

\* the coordinator together with the dashboard's reads of the counters
NextIngestStats ==
    \/ NextIngest
    \/ GetStatsLock /\ UNCHANGED <<alertVars, storeRest, aggVars, statVars>>
    \/ GetStatsReturn /\ UNCHANGED <<alertVars, storeRest, aggVars, statVars>>

(***************************************************************************)
(* Claims about the coordinator                                            *)
(***************************************************************************)
\* a flush thread left the write of a non-empty buffer without committing it
WriteFailedStep(f) ==
    /\ fpc[f] = "locked"
    /\ fpc'[f] # "locked"
    /\ tick_buffer # <<>>
    /\ db' = db

\* C6: a failed store append is swallowed, leaves the buffered ticks in the
\* buffer and the flush loop running (so the write is retried on the next
\* period); and while the coordinator keeps running and writes eventually
\* succeed, every tick that entered the buffer eventually is in the store.
C6_AtLeastOnce ==
    /\ [][\A f \in FlushThreads :
            /\ WriteFailedStep(f) =>
                  /\ tick_buffer' = tick_buffer
                  /\ running' = running
                  /\ fpc'[f] = "except"
            /\ (fpc[f] = "except" /\ fpc'[f] # "except") =>
                  /\ fpc'[f] = "loop"
                  /\ tick_buffer' = tick_buffer]_vars
    /\ \A k \in 1..(MaxTicks + 1) :
          (Len(db) + Unwritten >= k) ~> (Len(db) >= k \/ ~running)

\* a write has failed with ticks buffered, after an earlier write succeeded
C6_Witness ==
    \E f \in FlushThreads :
        /\ fpc[f] = "except"
        /\ running
        /\ tick_buffer # <<>>
        /\ db # <<>>

\* a trade event whose timestamp, price and quantity are present and parseable
WellFormedTrade(m) ==
    /\ m.json = "object"
    /\ m.e = "trade"
    /\ m.T.kind = "ok" /\ m.p.kind = "ok" /\ m.q.kind = "ok"

\* C7: the _on_message call for a message that is no well-formed trade event
\* changes neither the tick buffer nor the counters, ends in its own handler
\* and returns with the stream open and ready for the next message.
C7_MalformedDropped ==
    [][\A s \in CoordSymbols :
         /\ \A m \in Messages :
               (OnMessage(s, m) /\ ~WellFormedTrade(m)) =>
                  /\ spos'[s] \in {"except", "ignored"}
                  /\ UNCHANGED <<tick_buffer, stats, hold, ws, running>>
         /\ (spos[s] \in {"except", "ignored"} /\ spos'[s] # spos[s]) =>
                  /\ spos'[s] = "recv"
                  /\ UNCHANGED <<tick_buffer, stats, hold, ws, running>>]_vars

\* a stream that accepted a trade has since dropped a malformed message and
\* is still open
C7_Witness ==
    \E s \in CoordSymbols :
        /\ spos[s] = "except"
        /\ ws[s] = "open"
        /\ stats[s].count >= 1

\* C8: running goes from true to false only in a step of stop(), and a flush
\* thread leaves its loop only when it tests running and finds it false.
C8_OnlyStopClearsRunning ==
    [][/\ (running /\ ~running') => \E failing \in SUBSET CoordSymbols : Stop(failing)
       /\ \A f \in FlushThreads :
             (fpc[f] # "exited" /\ fpc'[f] = "exited") => (fpc[f] = "loop" /\ ~running)
      ]_vars

\* still running although a store write has failed, a stream has dropped a
\* malformed message and another stream has failed
C8_Witness ==
    /\ running
    /\ \E f \in FlushThreads : fpc[f] = "except"
    /\ \E s, u \in CoordSymbols : spos[s] = "except" /\ ws[u] = "closed"

\* what a step of stop() leaves: running false and every registered connection
\* closed, whichever close() calls raise
StopClosesAll ==
    \A failing \in SUBSET CoordSymbols :
        Stop(failing) =>
            /\ ~running'
            /\ \A s \in CoordSymbols : ws[s] # "none" => ws'[s] = "closed"

\* the table changes only by a whole batch of buffered ticks put behind its rows
StoreGrowsByBatches ==
    \/ db' = db
    \/ tick_buffer # <<>> /\ db' = db \o tick_buffer

\* no flush thread is alive
NoFlushThread == \A f \in FlushThreads : fpc[f] = "exited"

Ledger ==
    IF \E f \in FlushThreads : fpc[f] = "unlock" THEN db ELSE db \o tick_buffer

\* a step keeps every accepted tick: an append by a stream adds its tick
\* behind the others, a successful write copies the whole buffer to the table
\* and leaves it in the buffer, the clear that follows empties the buffer, a
\* failed write changes neither, and no other step touches them
ConservationStep ==
    /\ IF \E s \in CoordSymbols : OnMessageAppend(s)
          THEN \E s \in CoordSymbols : Ledger' = Append(Ledger, hold[s])
          ELSE Ledger' = Ledger
    /\ \A f \in FlushThreads :
          /\ FlushWrite(f) => (db' = db \o tick_buffer /\ tick_buffer' = tick_buffer)
          /\ FlushClear(f) => (db' = db /\ tick_buffer' = <<>>)
          /\ WriteFailedStep(f) => (db' = db /\ tick_buffer' = tick_buffer)

\* the ticks of a symbol among the accepted ones are as many as its stream has
\* counted, plus the one it is counting
AcceptedAreKept ==
    \A s \in CoordSymbols :
        CountOf(Ledger, Upper(s)) =
            stats[s].count + (IF spos[s] \in {"stats", "counting"} THEN 1 ELSE 0)

\* what a flush is about to clear is exactly what it has committed
ClearsWhatItCommitted ==
    \A f \in FlushThreads :
        fpc[f] = "unlock" =>
            /\ Len(tick_buffer) <= Len(db)
            /\ tick_buffer = SubSeq(db, Len(db) - Len(tick_buffer) + 1, Len(db))

\* C18: every tick accepted by _on_message is in the tick buffer or in the
\* store; a successful flush clears exactly the ticks it committed, a tick of
\* a stream never being appended between the write and the clear; and a
\* failed flush leaves the buffer unchanged.
C18_TickConservation ==
    /\ [][ConservationStep]_vars
    /\ [](AcceptedAreKept /\ ClearsWhatItCommitted)

\* a stream holds a parsed tick and waits for the buffer lock while a flush
\* thread is between its committed write and the clear
C18_Witness ==
    /\ running
    /\ \E s \in CoordSymbols : spos[s] = "buffer"
    /\ \E f \in FlushThreads : fpc[f] = "unlock" /\ buffer_lock = f

\* the thread that holds a lock is not waiting for anything: it can take its
\* next step
HolderCanProceed ==
    /\ \A f \in FlushThreads :
          buffer_lock = f =>
             ENABLED (FlushWrite(f) \/ FlushClear(f) \/ FlushWriteFailed(f) \/ FlushUnlock(f))
    /\ \A s \in CoordSymbols : stats_lock = s => ENABLED OnMessageStats(s)
    /\ stats_lock = "ui" => ENABLED GetStatsReturn

\* C19: no thread holds the buffer lock and the stats lock together (the
\* buffer lock is held by flush threads, or by a stream for the length of its
\* append; the stats lock by a stream that is counting, or by get_stats);
\* get_stats needs the stats lock only, so it can enter whenever that lock is
\* free, also during a flush; and a thread that holds a lock never waits, so
\* no deadlock can form.
C19_IndependentLocks ==
    /\ [][\A s \in CoordSymbols : OnMessageAppend(s) => (stats_lock # s /\ stats_lock' # s)]_vars
    /\ [](/\ buffer_lock \in FlushThreads \cup {0}
          /\ stats_lock \in CoordSymbols \cup {"ui", "free"}
          /\ \A s \in CoordSymbols : stats_lock = s <=> spos[s] = "counting"
          /\ stats_lock = "free" => ENABLED GetStatsLock
          /\ HolderCanProceed)

\* get_stats holds the stats lock while a flush thread holds the buffer lock
\* for a store write and a stream waits for the buffer lock
C19_Witness ==
    /\ stats_lock = "ui"
    /\ \E f \in FlushThreads : buffer_lock = f /\ fpc[f] = "locked" /\ tick_buffer # <<>>
    /\ \E s \in CoordSymbols : spos[s] = "buffer"

\* the flush threads that are alive
ActiveFlushThreads == {f \in FlushThreads : fpc[f] # "exited"}

\* C20: after any sequence of start() and stop() calls at most one flush task
\* is active, and each symbol has at most one live connection, the registered
\* one.
C20_SingleFlushTask ==
    /\ Cardinality(ActiveFlushThreads) <= 1
    /\ \A s \in CoordSymbols : ws[s] = "open" => running

(***************************************************************************)
(* Aggregation (QuantAnalytics.resample_ticks)                             *)
(***************************************************************************)
\* rows of the frame handed to resample_ticks
MaxFrameRows == 3

AggQuantities == {1, 2}
\* the rows a tick frame may hold
FrameTicks ==
    {Tick(IsoFormat(T), "BTCUSDT", p, q) : T \in TradeTimes, p \in Prices, q \in AggQuantities}

\* the dashboard's timeframes '1s', '1min', '5min', in microseconds
Timeframes == {1000000, 60000000, 300000000}

\* pd.to_datetime(df['timestamp']) on every row
WithDatetime(rows) ==
    [k \in 1..Len(rows) |-> [timestamp |-> ToDatetime(rows[k].timestamp),
                             price |-> rows[k].price, quantity |-> rows[k].quantity]]

\* the row put behind the rows of a sorted frame that are not later than it
InsertByTime(sorted, row) ==
    LET k == Cardinality({i \in 1..Len(sorted) : sorted[i].timestamp <= row.timestamp})
    IN  SubSeq(sorted, 1, k) \o <<row>> \o SubSeq(sorted, k + 1, Len(sorted))

\* variant: the frame is binned in arrival order, without sorting
KeepArrivalOrder(rows) == rows

\* resample sorts a frame whose index is not monotonic with a stable sort:
\* rows of equal timestamp keep their arrival order
RECURSIVE SortByIndex(_)
SortByIndex(rows) ==
    IF rows = <<>> THEN <<>>
    ELSE InsertByTime(SortByIndex(SubSeq(rows, 1, Len(rows) - 1)), Last(rows))

\* the left edge of the bin of an instant
BinStart(t, width) == (t \div width) * width

SeqMax(values) == CHOOSE v \in {values[k] : k \in 1..Len(values)} :
                     \A k \in 1..Len(values) : values[k] <= v
SeqMin(values) == CHOOSE v \in {values[k] : k \in 1..Len(values)} :
                     \A k \in 1..Len(values) : v <= values[k]
RECURSIVE SeqSum(_)
SeqSum(values) == IF values = <<>> THEN 0 ELSE Head(values) + SeqSum(Tail(values))

\* variant: the high of a bar is taken from its last tick
BarHighIsClose(prices) == Last(prices)

\* the high of a bin with ticks
BarHigh(prices) == SeqMax(prices)

\* .ohlc() and .sum() for one bin: first, max, min, last price and total
\* quantity of its rows; NaN prices and volume 0 for a bin without rows
BinRow(start, width, sorted) ==
    LET members == SelectSeq(sorted, LAMBDA r : BinStart(r.timestamp, width) = start)
        prices == [k \in 1..Len(members) |-> members[k].price]
        quantities == [k \in 1..Len(members) |-> members[k].quantity]
    IN  IF members = <<>>
        THEN [period_start |-> start, nan |-> TRUE, open |-> 0, high |-> 0, low |-> 0,
              close |-> 0, volume |-> 0]
        ELSE [period_start |-> start, nan |-> FALSE, open |-> prices[1],
              high |-> BarHigh(prices), low |-> SeqMin(prices), close |-> Last(prices),
              volume |-> SeqSum(quantities)]

\* df["price"].resample(timeframe).ohlc() with the volume column: one row for
\* every bin from the bin of the earliest row to the bin of the latest
Resampled(rows, width) ==
    LET sorted == SortByIndex(rows)
        times == [k \in 1..Len(rows) |-> rows[k].timestamp]
        first == BinStart(SeqMin(times), width)
        last == BinStart(SeqMax(times), width)
    IN  [k \in 1..((last - first) \div width + 1) |->
            BinRow(first + (k - 1) * width, width, sorted)]

\* variant: the bins without ticks are kept in the result
DropNaKeepsAll(frame) == frame

\* ohlc.dropna(): the rows without a NaN
DropNa(frame) == SelectSeq(frame, LAMBDA r : ~r.nan)

\* resample_ticks(df, timeframe); an empty frame gives an empty result
resample_ticks(rows, width) ==
    IF rows = <<>> THEN <<>>
    ELSE DropNa(Resampled(WithDatetime(rows), width))

\* a tick joins the frame (in any order of arrival)
FrameAppend(tick) ==
    /\ Len(df) < MaxFrameRows
    /\ df' = Append(df, tick)
    /\ timeframe' = 0
    /\ ohlc' = <<>>

\* the refresh cycle resamples the frame: ohlc = resample_ticks(df, timeframe)
Resample(width) ==
    /\ timeframe' = width
    /\ ohlc' = resample_ticks(df, width)
    /\ UNCHANGED df

InitAgg ==
    /\ df = <<>>
    /\ timeframe = 0
    /\ ohlc = <<>>

NextAgg ==
    \/ \E t \in FrameTicks : FrameAppend(t) /\ UNCHANGED <<alertVars, storeVars, ingestVars, statVars>>
    \/ \E w \in Timeframes : Resample(w) /\ UNCHANGED <<alertVars, storeVars, ingestVars, statVars>>

(***************************************************************************)
(* Claims about the aggregation                                            *)
(***************************************************************************)
\* C9: every bar of the result has low <= open <= high, low <= close <= high
\* and volume >= 0.
C9_BarInvariant ==
    \A k \in 1..Len(ohlc) :
        /\ ohlc[k].low <= ohlc[k].open /\ ohlc[k].open <= ohlc[k].high
        /\ ohlc[k].low <= ohlc[k].close /\ ohlc[k].close <= ohlc[k].high
        /\ ohlc[k].volume >= 0

\* a bar whose open, high, low and close are not all the same
C9_Witness ==
    \E k \in 1..Len(ohlc) :
        /\ ohlc[k].low < ohlc[k].open
        /\ ohlc[k].close < ohlc[k].high
        /\ ohlc[k].volume > 1

\* the arrangements of the rows of a frame
Arrangements(rows) ==
    {[k \in 1..Len(rows) |-> rows[p[k]]] : p \in Orderings(1..Len(rows))}

\* the arrangements that keep rows of equal timestamp in their relative order
TiePreserving(rows) ==
    {[k \in 1..Len(rows) |-> rows[p[k]]] :
        p \in {q \in Orderings(1..Len(rows)) :
                 \A i, j \in 1..Len(rows) :
                    (i < j /\ rows[q[i]].timestamp = rows[q[j]].timestamp) => q[i] < q[j]}}

\* C10 as stated: every arrangement of the rows gives the same bars.
C10_AnyPermutation ==
    timeframe # 0 => \A shuffled \in Arrangements(df) : resample_ticks(shuffled, timeframe) = ohlc

\* C10 as amended: every arrangement of the rows that keeps rows of equal
\* timestamp in their relative order gives the same bars.
C10_TiePreservingPermutation ==
    timeframe # 0 => \A shuffled \in TiePreserving(df) : resample_ticks(shuffled, timeframe) = ohlc

\* a resampled frame whose rows arrived out of time order, with a tie, giving
\* more than one bar
C10_Witness ==
    /\ timeframe # 0
    /\ Len(ohlc) > 1
    /\ \E i, j \in 1..Len(df) : i < j /\ TextLess(df[j].timestamp, df[i].timestamp)
    /\ \E i, j \in 1..Len(df) : i < j /\ df[j].timestamp = df[i].timestamp

\* the bins of the timeframe that hold at least one row of the frame
OccupiedBins(rows, width) ==
    {BinStart(ToDatetime(rows[k].timestamp), width) : k \in 1..Len(rows)}

\* C11: the result has exactly one bar for every bin that holds a tick and no
\* bar for a bin without ticks (no row of NaN or zero values), and a frame
\* without ticks gives an empty result.
C11_SparseBars ==
    timeframe # 0 =>
        /\ {ohlc[k].period_start : k \in 1..Len(ohlc)} = OccupiedBins(df, timeframe)
        /\ Len(ohlc) = Cardinality(OccupiedBins(df, timeframe))
        /\ \A k \in 1..Len(ohlc) : ~ohlc[k].nan
        /\ df = <<>> => ohlc = <<>>

\* two consecutive bars of the result with bins without ticks between them
C11_Witness ==
    /\ timeframe # 0
    /\ \E k \in 1..(Len(ohlc) - 1) :
          ohlc[k + 1].period_start - ohlc[k].period_start > timeframe

(***************************************************************************)
(* Rolling z-score (QuantAnalytics.calculate_zscore)                       *)
(***************************************************************************)
\* points of the series handed to calculate_zscore
MaxSeriesLen == 4
\* the largest rolling window
MaxWindow == 3

\* a point of a series: a number <<x>>, or NaN
NaN == <<>>
SeriesValues == {NaN, <<1>>, <<2>>, <<3>>}
Windows == 1..MaxWindow
\* by how much the floating-point mean of a window may differ from the exact
\* one, in units of the last place
RoundingErrors == {0, 1}

\* the observations of the window that ends at index i (1-based)
WindowOf(values, w, i) ==
    IF i < w THEN SubSeq(values, 1, i) ELSE SubSeq(values, i - w + 1, i)

\* variant: min_periods = 1, a window counts as soon as it holds one number
RollingPartial(values, w, i) ==
    \E k \in 1..Len(WindowOf(values, w, i)) : WindowOf(values, w, i)[k] # NaN

\* series.rolling(window=w): min_periods defaults to w, so a window counts
\* only when it holds w numbers
RollingFull(values, w, i) ==
    /\ i >= w
    /\ \A k \in 1..w : WindowOf(values, w, i)[k] # NaN

RECURSIVE PointSum(_)
PointSum(points) ==
    IF points = <<>> THEN 0 ELSE Head(points)[1] + PointSum(Tail(points))
RECURSIVE PointSumSq(_)
PointSumSq(points) ==
    IF points = <<>> THEN 0 ELSE Head(points)[1] * Head(points)[1] + PointSumSq(Tail(points))

\* .mean(): w times the mean of the window, NaN when the window does not count
RollingMean(values, w, i, err) ==
    IF RollingFull(values, w, i)
    THEN [nan |-> FALSE, num |-> PointSum(WindowOf(values, w, i)) + err]
    ELSE [nan |-> TRUE, num |-> 0]

\* .std(): the sample standard deviation (ddof = 1), kept as w * (w - 1) times
\* the variance; NaN when the window does not count or holds a single number
RollingStd(values, w, i) ==
    IF RollingFull(values, w, i) /\ w > 1
    THEN [nan |-> FALSE,
          num |-> w * PointSumSq(WindowOf(values, w, i))
                    - PointSum(WindowOf(values, w, i)) * PointSum(WindowOf(values, w, i))]
    ELSE [nan |-> TRUE, num |-> 0]

\* variant: a zero standard deviation is left as it is
ReplaceZeroOmitted(std) == std

\* rolling_std.replace(0, np.nan)
ReplaceZero(std) ==
    IF ~std.nan /\ std.num = 0 THEN [nan |-> TRUE, num |-> 0] ELSE std

\* (series - rolling_mean) / rolling_std at one index: NaN when an operand is
\* NaN or for 0 / 0, infinite for a non-zero numerator over 0
Standardize(x, w, mean, std) ==
    IF x = NaN \/ mean.nan \/ std.nan THEN [kind |-> "nan", dev |-> 0, var |-> 0]
    ELSE IF std.num = 0
         THEN IF w * x[1] - mean.num = 0
              THEN [kind |-> "nan", dev |-> 0, var |-> 0]
              ELSE [kind |-> "inf", dev |-> w * x[1] - mean.num, var |-> 0]
    ELSE [kind |-> "num", dev |-> w * x[1] - mean.num, var |-> std.num]

\* variant: the undefined points stay in the result
DropNaPointsOmitted(points) == points

\* .dropna(): the points that are not NaN, with their index
DropNaPoints(points) == SelectSeq(points, LAMBDA p : p.kind # "nan")

\* calculate_zscore(series, window)
calculate_zscore(values, w, err) ==
    DropNaPoints([i \in 1..Len(values) |->
        [index |-> i] @@ Standardize(values[i], w, RollingMean(values, w, i, err),
                                      ReplaceZero(RollingStd(values, w, i)))])

\* the series grows by one point
SeriesAppend(x) ==
    /\ Len(series) < MaxSeriesLen
    /\ series' = Append(series, x)
    /\ window' = 0
    /\ zscore_series' = <<>>

\* zscore = calculate_zscore(spread, window=rolling_window)
CalculateZscore(w, err) ==
    /\ window' = w
    /\ zscore_series' = calculate_zscore(series, w, err)
    /\ UNCHANGED series

InitZscore ==
    /\ series = <<>>
    /\ window = 0
    /\ zscore_series = <<>>

NextZscore ==
    \/ \E x \in SeriesValues :
          SeriesAppend(x) /\ UNCHANGED <<alertVars, storeVars, ingestVars, aggVars, olsVars, adfVars, requestVars>>
    \/ \E w \in Windows, err \in RoundingErrors :
          CalculateZscore(w, err) /\ UNCHANGED <<alertVars, storeVars, ingestVars, aggVars, olsVars, adfVars, requestVars>>

(***************************************************************************)
(* Claims about the rolling z-score                                        *)
(***************************************************************************)
\* max(0, n)
AtLeastZero(n) == IF n < 0 THEN 0 ELSE n

\* the indices of the points of the result
DefinedAt == {zscore_series[k].index : k \in 1..Len(zscore_series)}

\* the window that ends at index i is complete and holds no missing value
CompleteWindow(i) ==
    /\ i >= window
    /\ \A k \in (i - window + 1)..i : series[k] # NaN

\* the window that ends at index i holds one and the same value throughout
ConstantWindow(i) ==
    /\ CompleteWindow(i)
    /\ \A j, k \in (i - window + 1)..i : series[j] = series[k]

\* C12 as stated: the result has exactly max(0, len(series) - window + 1)
\* defined points.
C12_ExactCount ==
    window # 0 => Len(zscore_series) = AtLeastZero(Len(series) - window + 1)

\* C12 as amended: the result has one defined point for every index whose
\* window is complete, holds no missing value and is not constant, and no
\* other; so at most max(0, len(series) - window + 1) points, and exactly that
\* many when no window of the series is constant or holds a missing value.
C12_DefinedPoints ==
    window # 0 =>
        /\ DefinedAt = {i \in 1..Len(series) : CompleteWindow(i) /\ ~ConstantWindow(i)}
        /\ Len(zscore_series) = Cardinality(DefinedAt)
        /\ Len(zscore_series) <= AtLeastZero(Len(series) - window + 1)
        /\ (\A i \in window..Len(series) : CompleteWindow(i) /\ ~ConstantWindow(i))
              => Len(zscore_series) = AtLeastZero(Len(series) - window + 1)

\* a series without missing values, a window of at least 2, and a result that
\* has defined points, but fewer than len(series) - window + 1
C12_Witness ==
    /\ window >= 2
    /\ \A i \in 1..Len(series) : series[i] # NaN
    /\ Len(zscore_series) >= 1
    /\ Len(zscore_series) < Len(series) - window + 1

\* C17: an index whose window has standard deviation exactly zero (a complete
\* window of one repeated value) is absent from the result, and no point of
\* the result is infinite or the outcome of a division by zero.
C17_ZeroDeviationMissing ==
    window # 0 =>
        /\ \A i \in 1..Len(series) : ConstantWindow(i) => i \notin DefinedAt
        /\ \A k \in 1..Len(zscore_series) :
              /\ zscore_series[k].kind = "num"
              /\ zscore_series[k].var # 0

\* a result with defined points that skips an index inside its range, the
\* window of that index being constant
C17_Witness ==
    /\ window >= 2
    /\ \E i, j, k \in 1..Len(series) :
          /\ i < j /\ j < k
          /\ i \in DefinedAt /\ k \in DefinedAt
          /\ ConstantWindow(j)

(***************************************************************************)
(* Hedge ratio (QuantAnalytics.calculate_ols_hedge_ratio)                  *)
(***************************************************************************)
\* bars of a close price series
MaxBars == 3

BarTimes == 1..MaxBars
ClosePrices == {NaN, <<1>>, <<2>>}

\* a fraction num / den, and the floats 1.0 and 0.0
Fraction(num, den) == <<num, den>>
One == Fraction(1, 1)
Zero == Fraction(0, 1)

\* the module is not imported yet
NotImported == <<>>

NoOutcome == [kind |-> "none"]
\* return 1.0, 0.0, 0.0
NeutralDefault ==
    [kind |-> "return", hedge_ratio |-> One, intercept |-> Zero, r_squared |-> Zero]
\* raise ImportError(...)
RaisedImportError == [kind |-> "raise", error |-> "ImportError"]

\* price_a.align(price_b, join="inner") and the removal of the rows with a
\* NaN on either side: the bar times both series have a number for
ValidIndex(a, b) ==
    {t \in (DOMAIN a) \cap (DOMAIN b) : a[t] # NaN /\ b[t] # NaN}

RECURSIVE SumOver(_, _, _)
SumOver(index, f, g) ==
    IF index = {} THEN 0
    ELSE LET t == CHOOSE u \in index : TRUE
         IN  f[t][1] * g[t][1] + SumOver(index \ {t}, f, g)

\* sm.OLS(price_a.values, sm.add_constant(price_b.values)).fit(): slope,
\* intercept and R-squared of the least-squares line of A on [1, B]; for a
\* constant B the pseudo-inverse gives the solution of least norm
OlsFit(a, b) ==
    LET index == ValidIndex(a, b)
        n == Cardinality(index)
        ones == [t \in index |-> <<1>>]
        Sa == SumOver(index, a, ones)
        Sb == SumOver(index, b, ones)
        Sab == SumOver(index, a, b)
        Saa == SumOver(index, a, a)
        Sbb == SumOver(index, b, b)
        den == n * Sbb - Sb * Sb
    IN  IF den # 0
        THEN [kind |-> "return",
              hedge_ratio |-> Fraction(n * Sab - Sa * Sb, den),
              intercept |-> Fraction(Sa * Sbb - Sb * Sab, den),
              r_squared |-> Fraction((n * Sab - Sa * Sb) * (n * Sab - Sa * Sb),
                                     den * (n * Saa - Sa * Sa))]
        ELSE [kind |-> "return",
              hedge_ratio |-> Fraction(Sb * Sa, n * n + Sb * Sb),
              intercept |-> Fraction(n * Sa, n * n + Sb * Sb),
              r_squared |-> Fraction(0, n * Saa - Sa * Sa)]

\* calculate_ols_hedge_ratio(price_a, price_b); fit_raises: whether the
\* regression fails inside the try block
calculate_ols_hedge_ratio(a, b, fit_raises) ==
    IF STATSMODELS_AVAILABLE = <<FALSE>> THEN RaisedImportError
    ELSE IF Cardinality(ValidIndex(a, b)) < 2 THEN NeutralDefault
    ELSE IF fit_raises THEN NeutralDefault
    ELSE OlsFit(a, b)

\* analytics.py is imported: the import of statsmodels succeeds or fails
ImportAnalytics(found) ==
    /\ STATSMODELS_AVAILABLE = NotImported
    /\ STATSMODELS_AVAILABLE' = <<found>>
    /\ UNCHANGED <<price_a, price_b, ols_outcome>>

\* a bar closes for one of the assets
CloseBar(asset, t, price) ==
    /\ IF asset = "a"
       THEN /\ t \notin DOMAIN price_a
            /\ price_a' = [u \in (DOMAIN price_a) \cup {t} |->
                              IF u = t THEN price ELSE price_a[u]]
            /\ UNCHANGED price_b
       ELSE /\ t \notin DOMAIN price_b
            /\ price_b' = [u \in (DOMAIN price_b) \cup {t} |->
                              IF u = t THEN price ELSE price_b[u]]
            /\ UNCHANGED price_a
    /\ ols_outcome' = NoOutcome
    /\ UNCHANGED STATSMODELS_AVAILABLE

\* hedge_ratio, alpha, r_squared = calculate_ols_hedge_ratio(price_a, price_b)
CalculateOls(fit_raises) ==
    /\ STATSMODELS_AVAILABLE # NotImported
    /\ ols_outcome' = calculate_ols_hedge_ratio(price_a, price_b, fit_raises)
    /\ UNCHANGED <<STATSMODELS_AVAILABLE, price_a, price_b>>

InitOls ==
    /\ STATSMODELS_AVAILABLE = NotImported
    /\ price_a = <<>>
    /\ price_b = <<>>
    /\ ols_outcome = NoOutcome

NextOls ==
    \/ \E found \in BOOLEAN :
          ImportAnalytics(found)
            /\ UNCHANGED <<alertVars, storeVars, ingestVars, aggVars, zscoreVars, adfVars, requestVars>>
    \/ \E asset \in {"a", "b"}, t \in BarTimes, price \in ClosePrices :
          CloseBar(asset, t, price)
            /\ UNCHANGED <<alertVars, storeVars, ingestVars, aggVars, zscoreVars, adfVars, requestVars>>
    \/ \E fit_raises \in BOOLEAN :
          CalculateOls(fit_raises)
            /\ UNCHANGED <<alertVars, storeVars, ingestVars, aggVars, zscoreVars, adfVars, requestVars>>

(***************************************************************************)
(* Claims about the hedge ratio                                            *)
(***************************************************************************)
\* C13: calculate_ols_hedge_ratio never raises; with fewer than 2 aligned,
\* non-missing points it returns the neutral default (1.0, 0.0, 0.0).
C13_NeverRaises ==
    ols_outcome # NoOutcome =>
        /\ ols_outcome.kind = "return"
        /\ Cardinality(ValidIndex(price_a, price_b)) < 2 => ols_outcome = NeutralDefault

(***************************************************************************)
(* Stationarity test (QuantAnalytics.adf_test)                             *)
(***************************************************************************)
\* numbers and NaN values in the series handed to adf_test
MaxAdfPoints == 51
MaxAdfMissing == 2

\* "if len(series) < 50"
MinAdfPoints == 50
\* "p_value < 0.05", in thousandths
SignificanceLevel == 50

\* the p-values adfuller may report, in thousandths; NaN for a degenerate fit
PValues == {NaN, <<0>>, <<49>>, <<50>>, <<51>>, <<1000>>}

\* variant: the 10-point minimum
TooFewPointsTen(n) == n < 10

\* len(series) < 50, after series.dropna()
TooFewPoints(n) == n < MinAdfPoints

\* p_value < 0.05: false for NaN
BelowSignificance(p_value) == p_value # NaN /\ p_value[1] < SignificanceLevel

\* adf_test(series) on a series of the given numbers of values and NaN;
\* p_value: what adfuller reports; adfuller_raises: whether it fails. Every
\* exception inside the try block is printed and raised again.
adf_test(points, missing, p_value, adfuller_raises) ==
    IF STATSMODELS_AVAILABLE = <<FALSE>> THEN [kind |-> "raise", error |-> "ImportError"]
    ELSE IF TooFewPoints(points) THEN [kind |-> "raise", error |-> "ValueError"]
    ELSE IF adfuller_raises THEN [kind |-> "raise", error |-> "adfuller"]
    ELSE [kind |-> "return", p_value |-> p_value,
          is_stationary |-> BelowSignificance(p_value), n_observations |-> points]

\* the spread series grows by one value, a number or a NaN
AdfAppend(nan) ==
    /\ IF nan
       THEN /\ adf_missing < MaxAdfMissing
            /\ adf_missing' = adf_missing + 1
            /\ UNCHANGED adf_points
       ELSE /\ adf_points < MaxAdfPoints
            /\ adf_points' = adf_points + 1
            /\ UNCHANGED adf_missing
    /\ adf_outcome' = NoOutcome
    /\ UNCHANGED <<STATSMODELS_AVAILABLE>>

\* adf_results = adf_test(clean_spread)
RunAdf(p_value, adfuller_raises) ==
    /\ STATSMODELS_AVAILABLE # NotImported
    /\ adf_outcome' = adf_test(adf_points, adf_missing, p_value, adfuller_raises)
    /\ UNCHANGED <<STATSMODELS_AVAILABLE, adf_points, adf_missing>>

InitAdf ==
    /\ adf_points = 0
    /\ adf_missing = 0
    /\ adf_outcome = NoOutcome

NextAdf ==
    \/ \E found \in BOOLEAN :
          ImportAnalytics(found)
            /\ UNCHANGED <<alertVars, storeVars, ingestVars, aggVars, zscoreVars, adfVars, requestVars>>
    \/ \E nan \in BOOLEAN :
          AdfAppend(nan)
            /\ UNCHANGED <<alertVars, storeVars, ingestVars, aggVars, zscoreVars,
                           price_a, price_b, ols_outcome, requestVars>>
    \/ \E p_value \in PValues, adfuller_raises \in BOOLEAN :
          RunAdf(p_value, adfuller_raises)
            /\ UNCHANGED <<alertVars, storeVars, ingestVars, aggVars, zscoreVars,
                           price_a, price_b, ols_outcome, requestVars>>

(***************************************************************************)
(* Claims about the stationarity test                                      *)
(***************************************************************************)
\* C14 as stated: with fewer than 50 non-missing observations adf_test raises
\* and returns no result; with 50 or more it returns a result whose
\* is_stationary equals (p_value < 0.05).
C14_ResultFromFifty ==
    adf_outcome # NoOutcome =>
        IF adf_points < 50
        THEN adf_outcome.kind = "raise"
        ELSE /\ adf_outcome.kind = "return"
             /\ adf_outcome.is_stationary = BelowSignificance(adf_outcome.p_value)

\* C14 as amended: with fewer than 50 non-missing observations adf_test raises
\* and returns no result; whenever it returns a result there were 50 or more
\* and is_stationary equals (p_value < 0.05); with 50 or more it raises only
\* when statsmodels is missing or the test itself fails.
C14_ResultOnlyFromFifty ==
    adf_outcome # NoOutcome =>
        /\ adf_points < 50 => adf_outcome.kind = "raise"
        /\ adf_outcome.kind = "return" =>
              /\ adf_points >= 50
              /\ adf_outcome.n_observations = adf_points
              /\ adf_outcome.is_stationary = BelowSignificance(adf_outcome.p_value)
        /\ (adf_points >= 50 /\ adf_outcome.kind = "raise") =>
              adf_outcome.error \in {"ImportError", "adfuller"}

\* a result for a series of exactly 50 numbers and some NaN, found stationary
C14_Witness ==
    /\ adf_outcome # NoOutcome
    /\ adf_outcome.kind = "return"
    /\ adf_points = 50
    /\ adf_missing > 0
    /\ adf_outcome.is_stationary

(***************************************************************************)
(* ADF request of the dashboard (app.py: sidebar button and tab 1)         *)
(***************************************************************************)
\* "if clean_spread.shape[0] < 50"
MinRequestPoints == 50

\* tick counts the store reports for an asset: none, some
TickCounts == {0, 1}
\* positions of the "Rolling Window" slider (5 to 100 in steps of 5)
RollingWindows == {5, 100}
\* bars of one asset that have no bar of the other asset
UnmatchedBars == {0, 1}

\* "not ohlc_a.empty and not ohlc_b.empty and len(ohlc_a) > rolling_window"
GateOpen(bars_a, bars_b, rolling_window) ==
    bars_a # 0 /\ bars_b # 0 /\ bars_a > rolling_window

\* calculate_ols_hedge_ratio raises instead of returning (the availability
\* guard outside its try block); every other failure gives the default
OlsRaises == STATSMODELS_AVAILABLE = <<FALSE>>

\* clean_spread.shape[0] < 50
SpreadTooShort(n) == n < MinRequestPoints

\* the sidebar button: run_adf = True; st.rerun()
ClickRunAdf ==
    /\ STATSMODELS_AVAILABLE # NotImported
    /\ run_adf' = TRUE
    /\ adf_page' = "rerun"
    /\ UNCHANGED <<adf_results, STATSMODELS_AVAILABLE, adf_points, adf_missing, adf_outcome>>

\* the "Clear ADF Results" button, drawn below displayed results:
\* adf_results = None; st.rerun()
ClickClearAdf ==
    /\ adf_page \in {"completed", "results"}
    /\ adf_results # NoOutcome
    /\ adf_results' = NoOutcome
    /\ adf_page' = "rerun"
    /\ UNCHANGED <<run_adf, STATSMODELS_AVAILABLE, adf_points, adf_missing, adf_outcome>>

\* the ADF section of tab 1, for a spread of the given number of values (the
\* spread holds no NaN: calculate_spread drops them)
AdfSection(points, p_value, adfuller_raises) ==
    IF ~(run_adf \/ adf_results # NoOutcome)
    THEN /\ adf_page' = "analytics"
         /\ UNCHANGED <<run_adf, adf_results, adf_outcome>>
    ELSE IF ~run_adf
    THEN /\ adf_page' = "results"
         /\ UNCHANGED <<run_adf, adf_results, adf_outcome>>
    ELSE IF SpreadTooShort(points)
    THEN /\ run_adf' = FALSE
         /\ adf_results' = NoOutcome
         /\ adf_page' = "undersized"
         /\ UNCHANGED adf_outcome
    ELSE LET out == adf_test(points, 0, p_value, adfuller_raises) IN
         /\ adf_outcome' = out
         /\ run_adf' = FALSE
         /\ IF out.kind = "return"
            THEN adf_results' = out /\ adf_page' = "completed"
            ELSE adf_results' = NoOutcome /\ adf_page' = "failed"

\* one run of the dashboard script, as far as the ADF request goes: the wait
\* for the first ticks (sleep and rerun), the analytics gate, the statistics
\* (whose ImportError goes to the "Error in analytics" handler of tab 1), the
\* ADF section. bars_a, bars_b: the lengths of the two bar frames (0: empty,
\* also after a failed resample_ticks).
ScriptRun(tick_count_a, tick_count_b, bars_a, bars_b, rolling_window, p_value, adfuller_raises) ==
    /\ STATSMODELS_AVAILABLE # NotImported
    /\ (tick_count_a = 0 \/ tick_count_b = 0) => adf_points = 0
    /\ IF tick_count_a = 0 \/ tick_count_b = 0
       THEN /\ adf_page' = "waiting"
            /\ UNCHANGED <<run_adf, adf_results, adf_outcome>>
       ELSE IF ~GateOpen(bars_a, bars_b, rolling_window)
       THEN /\ adf_page' = "collecting"
            /\ UNCHANGED <<run_adf, adf_results, adf_outcome>>
       ELSE IF OlsRaises
       THEN /\ adf_page' = "error"
            /\ UNCHANGED <<run_adf, adf_results, adf_outcome>>
       ELSE AdfSection(adf_points, p_value, adfuller_raises)
    /\ UNCHANGED <<STATSMODELS_AVAILABLE, adf_points, adf_missing>>

\* spread lengths after a change to a coarser timeframe
CoarserLengths == {0, MinRequestPoints - 1}

\* the "Timeframe" selector is moved to a coarser timeframe: the same ticks
\* give fewer bars, so the spread of the next run is shorter
SelectTimeframe(n) ==
    /\ n < adf_points
    /\ adf_points' = n
    /\ adf_outcome' = NoOutcome
    /\ adf_page' = "rerun"
    /\ UNCHANGED <<run_adf, adf_results, STATSMODELS_AVAILABLE, adf_missing>>

\* the lengths a bar frame may have when the spread has adf_points values
BarCounts == {0} \cup {adf_points + u : u \in UnmatchedBars}

InitAdfRequest ==
    /\ run_adf = FALSE
    /\ adf_results = NoOutcome
    /\ adf_page = "none"

NextAdfRequest ==
    \/ \E found \in BOOLEAN :
          ImportAnalytics(found)
            /\ UNCHANGED <<alertVars, storeVars, ingestVars, aggVars, zscoreVars, adfVars, requestVars>>
    \/ AdfAppend(FALSE)
          /\ UNCHANGED <<alertVars, storeVars, ingestVars, aggVars, zscoreVars,
                         price_a, price_b, ols_outcome, requestVars>>
    \/ ClickRunAdf
          /\ UNCHANGED <<alertVars, storeVars, ingestVars, aggVars, zscoreVars,
                         price_a, price_b, ols_outcome>>
    \/ ClickClearAdf
          /\ UNCHANGED <<alertVars, storeVars, ingestVars, aggVars, zscoreVars,
                         price_a, price_b, ols_outcome>>
    \/ \E n \in CoarserLengths :
          SelectTimeframe(n)
            /\ UNCHANGED <<alertVars, storeVars, ingestVars, aggVars, zscoreVars,
                           price_a, price_b, ols_outcome>>
    \/ \E tick_count_a \in TickCounts, tick_count_b \in TickCounts,
          bars_a \in BarCounts, bars_b \in BarCounts, rolling_window \in RollingWindows,
          p_value \in PValues, adfuller_raises \in BOOLEAN :
          ScriptRun(tick_count_a, tick_count_b, bars_a, bars_b, rolling_window,
                    p_value, adfuller_raises)
            /\ UNCHANGED <<alertVars, storeVars, ingestVars, aggVars, zscoreVars,
                           price_a, price_b, ols_outcome>>

(***************************************************************************)
(* Claims about the ADF request                                            *)
(***************************************************************************)
\* a run of the script that reached its end (not the sleep-and-rerun of the
\* wait for the first ticks)
CompletedRun ==
    /\ adf_page' \notin {"rerun", "waiting"}
    /\ \E tick_count_a \in TickCounts, tick_count_b \in TickCounts,
          bars_a \in BarCounts, bars_b \in BarCounts, rolling_window \in RollingWindows,
          p_value \in PValues, adfuller_raises \in BOOLEAN :
          ScriptRun(tick_count_a, tick_count_b, bars_a, bars_b, rolling_window,
                    p_value, adfuller_raises)

\* a stored result comes from a successful test on 50 or more values
StoredResultIsValid ==
    adf_results # NoOutcome =>
        /\ adf_results.kind = "return"
        /\ adf_results.n_observations >= 50

\* a run that reaches the ADF section handles the request: it is cleared, and
\* an under-sized or failed one leaves no stored result
HandledWhenReached ==
    [][(run_adf /\ CompletedRun /\ adf_page' \notin {"collecting", "error"}) =>
          /\ ~run_adf'
          /\ adf_page' \in {"undersized", "failed"} => adf_results' = NoOutcome
          /\ adf_page' \in {"undersized", "failed", "completed"}]_vars

\* C22: once the button has set run_adf, the request is cleared by the end of
\* the next refresh cycle; adf_results is non-empty only after a successful
\* test on at least 50 points; an under-sized or failed request clears any
\* stored result.
C22_RequestCleared ==
    /\ [][(run_adf /\ CompletedRun) =>
            /\ ~run_adf'
            /\ (adf_points < 50 \/ adf_page' = "failed") => adf_results' = NoOutcome]_vars
    /\ []StoredResultIsValid

Init == InitAlert /\ InitStore /\ InitIngest /\ InitAgg /\ InitZscore /\ InitOls /\ InitAdf /\ InitAdfRequest

SpecAlert == Init /\ [][NextAlert]_vars

SpecStore == Init /\ [][NextStore]_vars

SpecAgg == Init /\ [][NextAgg]_vars

SpecIngest == Init /\ [][NextIngest]_vars

SpecIngestStats == Init /\ [][NextIngestStats]_vars

SpecZscore == Init /\ [][NextZscore]_vars

SpecOls == Init /\ [][NextOls]_vars

SpecAdf == Init /\ [][NextAdf]_vars

SpecAdfRequest == Init /\ [][NextAdfRequest]_vars

\* Every live flush thread keeps being scheduled, and the store does not refuse
\* writes for ever.
FairIngest ==
    /\ SpecIngest
    /\ \A f \in FlushThreads : WF_vars(FlushStep(f) /\ UNCHANGED <<alertVars, storeRest, aggVars, statVars>>)
    /\ SF_vars(\E f \in FlushThreads : FlushWrite(f) /\ UNCHANGED <<alertVars, storeRest, aggVars, statVars>>)

====
